---- MODULE Spec2Model ----
(***************************************************************************)
(* Model of index.js: the backup orchestration (backupAllDatabases), the   *)
(* dumper (dumpDatabase), the packager (zipFile), the transmitter          *)
(* (sendFileToChannel) and the two triggers that start a run (the          *)
(* cron.schedule callback and the "backupnow" command), plus "setdb".      *)
(*                                                                         *)
(* Every `await` of the source is one action: the awaited operation takes  *)
(* effect and its result (resolve or reject) is delivered, then the        *)
(* synchronous code that follows runs up to the next `await`.              *)
(* The outcome of each external operation (database, file system, Discord) *)
(* is an input drawn with \E.                                              *)
(*                                                                         *)
(* Spec covers runs that do not overlap: a trigger fires when no run is in *)
(* flight (Start). "setdb" may change the configured list at any time.     *)
(***************************************************************************)
EXTENDS Naturals, Sequences, FiniteSets

\* ---------------------------------------------------------------- bounds
MaxLen == 2        \* longest configured target list
MaxTables == 1     \* most tables SHOW TABLES reports for one database

Targets == {"alpha", "beta"}
Runs == {"cron", "manual"}          \* the two triggers that start a run
Kinds == {"sql", "zip"}             \* the two transient files of a target
None == "none"

\* The target lists the configuration takes: the empty list, lists of distinct
\* neighbours (alpha, beta, alpha, ...) and lists of duplicates (alpha, alpha, ...).
Alternating(n) == [k \in 1..n |-> IF k % 2 = 1 THEN "alpha" ELSE "beta"]
Repeated(n) == [k \in 1..n |-> "alpha"]
DbLists == {Alternating(n) : n \in 0..MaxLen} \cup {Repeated(n) : n \in 0..MaxLen}

VARIABLES
  run,      \* run[r]: the locals of trigger r's handler and of its backupAllDatabases call
  dbFile,   \* content of db_list.json, as loadDbList reads it
  disk      \* disk[<<target, kind>>]: whether the file exists

vars == <<run, dbFile, disk>>

\* ------------------------------------------------------- configuration store
\* loadDbList: a missing or unparsable file reads as the empty list.
loadDbList == dbFile

\* listDatabases without the emptiness check of line 98.
listDatabasesNoCheck(dbs) == "ok"

\* listDatabases: the list, or the configuration error when it is empty.
listDatabases(dbs) == IF Len(dbs) = 0 THEN "Config" ELSE "ok"

\* ------------------------------------------------------------- run record
\* The state of a handler before it is triggered (all locals unset).
Fresh ==
  [ pc |-> "idle",
    owner |-> TRUE,            \* isOwner of the triggering message (line 209)
    reply |-> None,            \* reply sent to the triggering message
    notifyChannel |-> FALSE,   \* TRUE: a channel object, FALSE: null
    fileChannel |-> FALSE,
    dbNames |-> << >>,
    i |-> 0,                   \* position of the loop in dbNames (0: not started)
    success |-> 0,
    failed |-> 0,
    err |-> None,              \* error caught for the current target
    results |-> << >>,         \* per processed target: "ok", "Dump" or "other"
    conn |-> None,             \* connection of the current dumpDatabase call
    openConns |-> 0,           \* connections this run opened and that are still open
    tables |-> 0,              \* tables left to dump
    unlinkFailed |-> {},       \* files whose deletion in the last `finally` failed
    reports |-> << >>,         \* targets named in the failure reports attempted
    reportRejected |-> FALSE,  \* a failure report of this handler was rejected
    fileSends |-> 0,           \* send calls made on the transfer channel
    summaries |-> << >>,       \* the summary embeds handed to notifyChannel.send
    thrown |-> None,           \* error that left backupAllDatabases
    returned |-> FALSE,        \* backupAllDatabases returned normally
    catchNotify |-> FALSE,     \* `notify` of the trigger's catch block (line 189)
    trigReports |-> 0,         \* reports sent by the trigger's own catch block
    escaped |-> None ]         \* error that left the trigger handler

dbName(s) == s.dbNames[s.i]
sqlPath(s) == <<dbName(s), "sql">>
zipPath(s) == <<dbName(s), "zip">>

\* ------------------------------------------------------------ trigger glue
\* ThrowToCaller with the try/catch of the cron callback (lines 183, 187) left out.
ThrowToCallerNoTry(r, s, e) == [s EXCEPT !.thrown = e, !.escaped = e, !.pc = "done"]

\* An error leaves backupAllDatabases and reaches the caller.
\* cron callback: the try/catch logs it and re-fetches the notify channel.
\* backupnow handler: no try/catch, the handler's promise rejects.
ThrowToCaller(r, s, e) ==
  IF r = "cron"
  THEN [s EXCEPT !.thrown = e, !.pc = "catchFetch"]
  ELSE [s EXCEPT !.thrown = e, !.escaped = e, !.pc = "done"]

\* backupAllDatabases returns normally; both callers end right after it.
ReturnToCaller(r, s) == [s EXCEPT !.returned = TRUE, !.pc = "done"]

\* ----------------------------------------------------- backupAllDatabases
\* Finalize with the colour of line 157 fixed to the no-failure one.
FinalizeNoWarn(r, s) ==
  IF s.notifyChannel
  THEN [s EXCEPT !.pc = "summary",
                 !.summaries = Append(@, [ total |-> Len(s.dbNames), success |-> s.success,
                                           failed |-> s.failed, warn |-> FALSE ])]
  ELSE ReturnToCaller(r, s)

\* Finalize with the total read from the stored list again instead of dbNames.length.
FinalizeReload(r, s) ==
  IF s.notifyChannel
  THEN [s EXCEPT !.pc = "summary",
                 !.summaries = Append(@, [ total |-> Len(loadDbList), success |-> s.success,
                                           failed |-> s.failed, warn |-> s.failed > 0 ])]
  ELSE ReturnToCaller(r, s)

\* Lines 154-166: build the summary embed and send it when a channel is set.
Finalize(r, s) ==
  IF s.notifyChannel
  THEN [s EXCEPT !.pc = "summary",
                 !.summaries = Append(@, [ total |-> Len(s.dbNames), success |-> s.success,
                                           failed |-> s.failed, warn |-> s.failed > 0 ])]
  ELSE ReturnToCaller(r, s)

\* What `results` keeps of a target: success, a failed Dump, or another failure.
Outcome(e) == IF e = None THEN "ok" ELSE IF e = "Dump" THEN "Dump" ELSE "other"

\* End of the `finally` block: next iteration of the for loop, or the loop is over.
NextTarget(r, s) ==
  LET t == [s EXCEPT !.results = Append(@, Outcome(s.err)), !.i = @ + 1,
                      !.err = None, !.conn = None, !.tables = 0] IN
  IF s.i < Len(s.dbNames) THEN [t EXCEPT !.pc = "connect"] ELSE Finalize(r, t)

\* CatchBlock with the `failed++` of line 136 left out.
CatchBlockNoCount(s, e) ==
  LET c == [s EXCEPT !.err = e] IN
  IF s.notifyChannel
  THEN [c EXCEPT !.reports = Append(@, dbName(s)), !.pc = "report"]
  ELSE [c EXCEPT !.pc = "cleanupZip"]

\* CatchBlock without the report of lines 137-147.
CatchBlockNoReport(s, e) == [s EXCEPT !.err = e, !.failed = @ + 1, !.pc = "cleanupZip"]

\* CatchBlock with `failed++` moved inside the `if (notifyChannel)` of line 137.
CatchBlockCountIfChannel(s, e) ==
  IF s.notifyChannel
  THEN [s EXCEPT !.err = e, !.failed = @ + 1, !.reports = Append(@, dbName(s)),
                 !.pc = "report"]
  ELSE [s EXCEPT !.err = e, !.pc = "cleanupZip"]

\* The catch block, lines 134-147: count the failure, report it when a channel is set.
CatchBlock(s, e) ==
  LET c == [s EXCEPT !.err = e, !.failed = @ + 1] IN
  IF s.notifyChannel
  THEN [c EXCEPT !.reports = Append(@, dbName(s)), !.pc = "report"]
  ELSE [c EXCEPT !.pc = "cleanupZip"]

\* Lines 112-118: load the list, reset the counters, enter the loop (a `for...of`
\* over no element goes straight to line 154).
backupAllDatabases(r, s) ==
  LET dbs == loadDbList
      t == [s EXCEPT !.dbNames = dbs, !.success = 0, !.failed = 0, !.i = 1]
  IN  IF listDatabases(dbs) = "Config" THEN ThrowToCaller(r, s, "Config")
      ELSE IF Len(dbs) >= 1 THEN [t EXCEPT !.pc = "connect"]
      ELSE Finalize(r, t)

\* ------------------------------------------------------------------ Init
Init ==
  /\ run = [r \in Runs |-> Fresh]
  /\ dbFile \in DbLists
  /\ disk = [p \in Targets \X Kinds |-> FALSE]

Set(r, s) == run' = [run EXCEPT ![r] = s]

Idle(r) == run[r].pc \in {"idle", "done"}

\* A trigger fires when no run is in flight; the locals of the handlers that have
\* ended are dropped.
Start(r, s) ==
  /\ \A q \in Runs : Idle(q)
  /\ run' = [q \in Runs |-> IF q = r THEN s ELSE Fresh]

\* ---------------------------------------------------------------- triggers
\* cron.schedule callback, line 181-184: starts with the fetch of the notify channel.
CronTrigger ==
  /\ Start("cron", [Fresh EXCEPT !.pc = "fetchNotify"])
  /\ UNCHANGED <<dbFile, disk>>

\* BackupNow without the owner check of line 247.
BackupNowNoOwnerCheck ==
  /\ \E isOwner \in BOOLEAN :
       Start("manual", [Fresh EXCEPT !.owner = isOwner, !.pc = "ack"])
  /\ UNCHANGED <<dbFile, disk>>

\* MessageCreate with "!backupnow", lines 246-248.
BackupNow ==
  /\ \E isOwner \in BOOLEAN :
       Start("manual", IF isOwner
                       THEN [Fresh EXCEPT !.pc = "ack"]
                       ELSE [Fresh EXCEPT !.owner = FALSE, !.reply = "denied", !.pc = "done"])
  /\ UNCHANGED <<dbFile, disk>>

\* await msg.reply(...), line 248: a rejected reply leaves the handler.
Ack ==
  /\ run["manual"].pc = "ack"
  /\ \E ok \in BOOLEAN :
       Set("manual", IF ok
                     THEN [run["manual"] EXCEPT !.reply = "ack", !.pc = "fetchNotify"]
                     ELSE [run["manual"] EXCEPT !.escaped = "Reply", !.pc = "done"])
  /\ UNCHANGED <<dbFile, disk>>

\* client.channels.fetch(NOTIFY_CHANNEL_ID).catch(() => null), lines 184 and 249.
FetchNotify(r) ==
  /\ run[r].pc = "fetchNotify"
  /\ \E ch \in BOOLEAN :
       Set(r, [run[r] EXCEPT !.notifyChannel = ch, !.pc = "fetchFile"])
  /\ UNCHANGED <<dbFile, disk>>

\* client.channels.fetch(BACKUP_CHANNEL_ID).catch(() => null), then the call of
\* backupAllDatabases, whose listDatabases runs synchronously (lines 185-186, 250-251).
FetchFile(r) ==
  /\ run[r].pc = "fetchFile"
  /\ \E ch \in BOOLEAN :
       Set(r, backupAllDatabases(r, [run[r] EXCEPT !.fileChannel = ch]))
  /\ UNCHANGED <<dbFile, disk>>

\* Catch block of the cron callback, lines 188-190: fetch the notify channel again.
CatchFetch ==
  /\ run["cron"].pc = "catchFetch"
  /\ \E ch \in BOOLEAN :
       Set("cron", IF ch
                   THEN [run["cron"] EXCEPT !.catchNotify = TRUE, !.trigReports = @ + 1,
                                            !.pc = "catchReport"]
                   ELSE [run["cron"] EXCEPT !.pc = "done"])
  /\ UNCHANGED <<dbFile, disk>>

\* notify.send(...).catch(() => {}), lines 191-199: resolved or rejected, the callback ends.
afterCatchReport(s, ok) ==
  IF ok THEN [s EXCEPT !.pc = "done"]
  ELSE [s EXCEPT !.reportRejected = TRUE, !.pc = "done"]

CatchReport ==
  /\ run["cron"].pc = "catchReport"
  /\ \E ok \in BOOLEAN : Set("cron", afterCatchReport(run["cron"], ok))
  /\ UNCHANGED <<dbFile, disk>>

\* MessageCreate with "!setdb ...", lines 237-243, sent by the owner.
SetDb ==
  /\ \E arr \in DbLists : arr # dbFile /\ dbFile' = arr
  /\ UNCHANGED <<run, disk>>

\* ------------------------------------------------------------ dumpDatabase
\* dumpThrows with the rejection ignored: the run goes on to write the dump file.
dumpThrowsContinue(s, lost) == [s EXCEPT !.pc = "writeSql"]

\* A query of dumpDatabase rejects (lines 58, 66, 69): the function throws before
\* line 92, so conn.end() is not called. `lost` tells whether the failure was the
\* loss of the connection itself (then it is no longer open) or an SQL error.
dumpThrows(s, lost) ==
  IF lost
  THEN CatchBlock([s EXCEPT !.conn = "closed", !.openConns = @ - 1], "Dump")
  ELSE CatchBlock(s, "Dump")

\* After a table is dumped (or when there is none): next table, or conn.end(), line 92.
afterTable(s, left) ==
  IF left = 0 THEN [s EXCEPT !.tables = 0, !.pc = "connEnd"]
  ELSE [s EXCEPT !.tables = left, !.pc = "showCreate"]

QueryResults == {"ok", "queryError", "connLost"}

\* createConnection, line 57.
Connect(r) ==
  /\ run[r].pc = "connect"
  /\ \E ok \in BOOLEAN :
       LET s == [run[r] EXCEPT !.unlinkFailed = {}] IN
       Set(r, IF ok
              THEN [s EXCEPT !.conn = "open", !.openConns = @ + 1, !.pc = "showTables"]
              ELSE CatchBlock(s, "Dump"))
  /\ UNCHANGED <<dbFile, disk>>

\* conn.query('SHOW TABLES'), line 58.
ShowTables(r) ==
  /\ run[r].pc = "showTables"
  /\ \E res \in QueryResults, n \in 0..MaxTables :
       Set(r, IF res = "ok" THEN afterTable(run[r], n)
              ELSE dumpThrows(run[r], res = "connLost"))
  /\ UNCHANGED <<dbFile, disk>>

\* conn.query('SHOW CREATE TABLE ...'), line 66.
ShowCreate(r) ==
  /\ run[r].pc = "showCreate"
  /\ \E res \in QueryResults :
       Set(r, IF res = "ok" THEN [run[r] EXCEPT !.pc = "select"]
              ELSE dumpThrows(run[r], res = "connLost"))
  /\ UNCHANGED <<dbFile, disk>>

\* conn.query('SELECT * FROM ...') and the row loop, lines 69-89.
Select(r) ==
  /\ run[r].pc = "select"
  /\ \E res \in QueryResults :
       Set(r, IF res = "ok" THEN afterTable(run[r], run[r].tables - 1)
              ELSE dumpThrows(run[r], res = "connLost"))
  /\ UNCHANGED <<dbFile, disk>>

\* conn.end(), lines 92-93: the connection is closed; a rejection makes the dump throw.
ConnEnd(r) ==
  /\ run[r].pc = "connEnd"
  /\ \E ok \in BOOLEAN :
       LET s == [run[r] EXCEPT !.conn = "closed", !.openConns = @ - 1] IN
       Set(r, IF ok THEN [s EXCEPT !.pc = "writeSql"] ELSE CatchBlock(s, "Dump"))
  /\ UNCHANGED <<dbFile, disk>>

\* ------------------------------------------------------------ file system
Exists(p) == disk[p]
Write(p) == disk' = [disk EXCEPT ![p] = TRUE]
Remove(p) == disk' = [disk EXCEPT ![p] = FALSE]

\* fsp.writeFile(sqlPath, sql), line 125. A failed write may leave a partial file.
WriteSql(r) ==
  /\ run[r].pc = "writeSql"
  /\ \E res \in {"ok", "failed", "partial"} :
       /\ Set(r, IF res = "ok" THEN [run[r] EXCEPT !.pc = "zip"]
                 ELSE CatchBlock(run[r], "Package"))
       /\ IF res = "failed" THEN UNCHANGED disk ELSE Write(sqlPath(run[r]))
  /\ UNCHANGED dbFile

\* zipFile, lines 42-54, awaited at line 127. The promise resolves on the output
\* stream's 'close' and rejects on the archive's 'error' (the output file may
\* have been created by then); an error of the output stream has no handler
\* that settles the promise, and the run stays at the await ("zipPending").
ZipFile(r) ==
  /\ run[r].pc = "zip"
  /\ \E res \in {"ok", "archiveError", "outputError"}, created \in BOOLEAN :
       /\ res = "ok" => created
       /\ res = "outputError" => ~created
       /\ Set(r, CASE res = "ok" -> [run[r] EXCEPT !.pc = "unlinkSql"]
                   [] res = "archiveError" -> CatchBlock(run[r], "Package")
                   [] OTHER -> [run[r] EXCEPT !.pc = "zipPending"])
       /\ IF created THEN Write(zipPath(run[r])) ELSE UNCHANGED disk
  /\ UNCHANGED dbFile

\* afterUnlinkSql without the channel check of line 130.
afterUnlinkSqlNoCheck(s, ok) ==
  IF ~ok THEN CatchBlock(s, "Unlink") ELSE [s EXCEPT !.pc = "stat"]

\* Lines 128-131 after the unlink settles: the channel check, then the stat call.
afterUnlinkSql(s, ok) ==
  IF ~ok THEN CatchBlock(s, "Unlink")
  ELSE IF ~s.fileChannel THEN CatchBlock(s, "DestUnset")
  ELSE [s EXCEPT !.pc = "stat"]

\* fsp.unlink(sqlPath) inside the try block, line 128.
UnlinkSql(r) ==
  /\ run[r].pc = "unlinkSql"
  /\ \E ok \in BOOLEAN :
       /\ ok => Exists(sqlPath(run[r]))
       /\ Set(r, afterUnlinkSql(run[r], ok))
       /\ IF ok THEN Remove(sqlPath(run[r])) ELSE UNCHANGED disk
  /\ UNCHANGED dbFile

\* sendFileToChannel: fsp.stat(filePath), lines 105-108; on success channel.send is called.
Stat(r) ==
  /\ run[r].pc = "stat"
  /\ \E ok \in BOOLEAN :
       /\ ok => Exists(zipPath(run[r]))
       /\ Set(r, IF ok THEN [run[r] EXCEPT !.fileSends = @ + 1, !.pc = "send"]
                 ELSE CatchBlock(run[r], "Transmit"))
  /\ UNCHANGED <<dbFile, disk>>

\* Send with the `success++` of line 132 placed before the await of line 131.
SendCountsFirst(r) ==
  /\ run[r].pc = "send"
  /\ \E ok \in BOOLEAN :
       LET s == [run[r] EXCEPT !.success = @ + 1] IN
       Set(r, IF ok THEN [s EXCEPT !.pc = "cleanupZip"] ELSE CatchBlock(s, "Transmit"))
  /\ UNCHANGED <<dbFile, disk>>

\* channel.send({content, files}) settles, lines 108 and 131-133.
Send(r) ==
  /\ run[r].pc = "send"
  /\ \E ok \in BOOLEAN :
       Set(r, IF ok THEN [run[r] EXCEPT !.success = @ + 1, !.pc = "cleanupZip"]
              ELSE CatchBlock(run[r], "Transmit"))
  /\ UNCHANGED <<dbFile, disk>>

\* afterReport without the .catch(() => {}) of line 146: the rejection leaves the run.
afterReportNoCatch(r, s, ok) ==
  IF ok THEN [s EXCEPT !.pc = "cleanupZip"] ELSE ThrowToCaller(r, s, "Report")

\* notifyChannel.send(...).catch(() => {}) settles, lines 138-146: a rejection is dropped.
afterReport(r, s, ok) ==
  IF ok THEN [s EXCEPT !.pc = "cleanupZip"]
  ELSE [s EXCEPT !.reportRejected = TRUE, !.pc = "cleanupZip"]

Report(r) ==
  /\ run[r].pc = "report"
  /\ \E ok \in BOOLEAN : Set(r, afterReport(r, run[r], ok))
  /\ UNCHANGED <<dbFile, disk>>

\* try { await fsp.unlink(p) } catch {} in the finally block, lines 149-150.
unlinkQuietly(s, kind, ok) ==
  IF ok THEN s ELSE [s EXCEPT !.unlinkFailed = @ \cup {kind}]

CleanupZip(r) ==
  /\ run[r].pc = "cleanupZip"
  /\ \E ok \in BOOLEAN :
       /\ ok => Exists(zipPath(run[r]))
       /\ Set(r, [unlinkQuietly(run[r], "zip", ok) EXCEPT !.pc = "cleanupSql"])
       /\ IF ok THEN Remove(zipPath(run[r])) ELSE UNCHANGED disk
  /\ UNCHANGED dbFile

\* The finally block without line 150: the dump file is not deleted.
CleanupSqlSkipped(r) ==
  /\ run[r].pc = "cleanupSql"
  /\ Set(r, NextTarget(r, run[r]))
  /\ UNCHANGED <<dbFile, disk>>

CleanupSql(r) ==
  /\ run[r].pc = "cleanupSql"
  /\ \E ok \in BOOLEAN :
       /\ ok => Exists(sqlPath(run[r]))
       /\ Set(r, NextTarget(r, unlinkQuietly(run[r], "sql", ok)))
       /\ IF ok THEN Remove(sqlPath(run[r])) ELSE UNCHANGED disk
  /\ UNCHANGED dbFile

\* await notifyChannel.send({embeds: [embed]}), line 166: not wrapped in a catch.
afterSummary(r, s, ok) ==
  IF ok THEN ReturnToCaller(r, s) ELSE ThrowToCaller(r, s, "Summary")

Summary(r) ==
  /\ run[r].pc = "summary"
  /\ \E ok \in BOOLEAN : Set(r, afterSummary(r, run[r], ok))
  /\ UNCHANGED <<dbFile, disk>>

\* ------------------------------------------------------------------ Next
Next ==
  \/ CronTrigger
  \/ BackupNow
  \/ Ack
  \/ CatchFetch
  \/ CatchReport
  \/ SetDb
  \/ \E r \in Runs : FetchNotify(r)
  \/ \E r \in Runs : FetchFile(r)
  \/ \E r \in Runs : Connect(r)
  \/ \E r \in Runs : ShowTables(r)
  \/ \E r \in Runs : ShowCreate(r)
  \/ \E r \in Runs : Select(r)
  \/ \E r \in Runs : ConnEnd(r)
  \/ \E r \in Runs : WriteSql(r)
  \/ \E r \in Runs : ZipFile(r)
  \/ \E r \in Runs : UnlinkSql(r)
  \/ \E r \in Runs : Stat(r)
  \/ \E r \in Runs : Send(r)
  \/ \E r \in Runs : Report(r)
  \/ \E r \in Runs : CleanupZip(r)
  \/ \E r \in Runs : CleanupSql(r)
  \/ \E r \in Runs : Summary(r)

Spec == Init /\ [][Next]_vars

\* ------------------------------------------------------- overlapping runs
\* The cron callback and the MessageCreate handler are independent async
\* functions and nothing serialises them: a trigger can fire while the run of
\* the other trigger is at any of its awaits. SpecOverlap explores that, on the
\* stored list (alpha): both runs then use the same two paths of BACKUP_DIR.
InitOverlap ==
  /\ run = [r \in Runs |-> Fresh]
  /\ dbFile = <<"alpha">>
  /\ disk = [p \in Targets \X Kinds |-> FALSE]

\* A trigger fires whatever the other handler is doing.
StartOverlap(r, s) == Idle(r) /\ Set(r, s)

CronTriggerOverlap ==
  /\ StartOverlap("cron", [Fresh EXCEPT !.pc = "fetchNotify"])
  /\ UNCHANGED <<dbFile, disk>>

BackupNowOverlap ==
  /\ \E isOwner \in BOOLEAN :
       StartOverlap("manual",
                    IF isOwner
                    THEN [Fresh EXCEPT !.pc = "ack"]
                    ELSE [Fresh EXCEPT !.owner = FALSE, !.reply = "denied", !.pc = "done"])
  /\ UNCHANGED <<dbFile, disk>>

NextOverlap ==
  \/ CronTriggerOverlap
  \/ BackupNowOverlap
  \/ Ack
  \/ CatchFetch
  \/ CatchReport
  \/ \E r \in Runs : FetchNotify(r)
  \/ \E r \in Runs : FetchFile(r)
  \/ \E r \in Runs : Connect(r)
  \/ \E r \in Runs : ShowTables(r)
  \/ \E r \in Runs : ShowCreate(r)
  \/ \E r \in Runs : Select(r)
  \/ \E r \in Runs : ConnEnd(r)
  \/ \E r \in Runs : WriteSql(r)
  \/ \E r \in Runs : ZipFile(r)
  \/ \E r \in Runs : UnlinkSql(r)
  \/ \E r \in Runs : Stat(r)
  \/ \E r \in Runs : Send(r)
  \/ \E r \in Runs : Report(r)
  \/ \E r \in Runs : CleanupZip(r)
  \/ \E r \in Runs : CleanupSql(r)
  \/ \E r \in Runs : Summary(r)

SpecOverlap == InitOverlap /\ [][NextOverlap]_vars

\* ================================================================ claims
\* The current target's outcome has been counted (the try block is over).
Counted(s) == s.pc \in {"report", "cleanupZip", "cleanupSql"}

\* The for loop of a run is over.
LoopOver(s) == s.i > Len(s.dbNames)

\* Run r leaves the `finally` block of its current target in this step.
StepEnds(r) == run[r].pc = "cleanupSql" /\ run'[r].pc # "cleanupSql"

\* C1: at every point of the per-target loop success + failed is the number of
\* targets whose outcome is known (those before position i, plus the current one
\* once its try block is over), and once the loop is over it is the length of
\* the target list.
C1_CountsSumToProcessed ==
  \A r \in Runs :
    LET s == run[r] IN
    s.i >= 1 =>
      /\ s.success + s.failed = (s.i - 1) + (IF Counted(s) THEN 1 ELSE 0)
      /\ LoopOver(s) => s.success + s.failed = Len(s.dbNames)

\* A run over a list with a duplicate has finished its loop with a success and a failure.
C1_Witness ==
  \E r \in Runs :
    LET s == run[r] IN
    /\ Len(s.dbNames) >= 2 /\ LoopOver(s)
    /\ s.dbNames[1] = s.dbNames[2]
    /\ s.success >= 1 /\ s.failed >= 1

\* C2 as stated: when a target's processing step completes, neither its dump
\* file nor its artifact exists on disk.
C2_NoFileAfterStep ==
  [][\A r \in Runs :
       StepEnds(r) => \A k \in Kinds : ~disk'[<<dbName(run[r]), k>>]]_vars

\* C2 amended: when a target's processing step completes, a file of that target
\* is on disk only if the step's attempt to delete it in `finally` failed.
C2_NoFileUnlessUnlinkFailed ==
  [][\A r \in Runs :
       StepEnds(r) =>
         \A k \in Kinds : disk'[<<dbName(run[r]), k>>] => k \in run'[r].unlinkFailed]_vars

\* The first target failed after its dump was written, its step is over and
\* both of its files are gone.
C2_Witness ==
  \E r \in Runs :
    LET s == run[r] IN
    /\ s.i = 2 /\ s.pc = "connect" /\ s.results[1] = "other"
    /\ "zip" \notin s.unlinkFailed
    /\ \A k \in Kinds : ~disk[<<s.dbNames[1], k>>]

\* No pipeline step, report or summary was performed by the run.
NoWork(s) ==
  /\ s.i = 0 /\ s.dbNames = << >> /\ s.results = << >>
  /\ s.success = 0 /\ s.failed = 0
  /\ s.conn = None /\ s.openConns = 0
  /\ s.reports = << >> /\ s.fileSends = 0 /\ s.summaries = << >>

\* C3: a run that finds the configured list empty throws the configuration error
\* at once, touches no file, and has performed no Dump, Package, Transmit,
\* failure report or summary report.
C3_EmptyListFailsFast ==
  /\ [][\A r \in Runs :
          (run[r].pc = "fetchFile" /\ run'[r].pc # "fetchFile" /\ Len(dbFile) = 0)
            => run'[r].thrown = "Config" /\ NoWork(run'[r]) /\ disk' = disk]_vars
  /\ [](\A r \in Runs : run[r].thrown = "Config" => NoWork(run[r]))

\* A run was started on an empty list and has thrown the configuration error.
C3_Witness ==
  \E r \in Runs : run[r].thrown = "Config" /\ Len(dbFile) = 0 /\ run[r].pc = "done"

\* Number of failed targets among the first j processed ones.
FailsUpTo(s, j) == Cardinality({m \in 1..j : s.results[m] # "ok"})

\* The run has left the per-target loop (summary stage, or back in the trigger).
PastLoop(s) == s.i >= 1 /\ s.pc \in {"summary", "done", "catchFetch", "catchReport"}

\* C4 as stated: when the Dump of a target fails, every later target is still
\* processed and a failure notification naming the failed target is issued.
C4_DumpFailureReported ==
  \A r \in Runs :
    LET s == run[r] IN
    \A j \in 1..Len(s.results) :
      s.results[j] = "Dump" =>
        /\ PastLoop(s) => Len(s.results) = Len(s.dbNames)
        /\ Len(s.reports) >= FailsUpTo(s, j)
        /\ s.reports[FailsUpTo(s, j)] = s.dbNames[j]

\* C4 amended: when the Dump of a target fails, every later target is still
\* processed and, when the run has a reporting channel, a failure notification
\* naming the failed target is issued.
C4_DumpFailureReportedIfChannel ==
  \A r \in Runs :
    LET s == run[r] IN
    \A j \in 1..Len(s.results) :
      s.results[j] = "Dump" =>
        /\ PastLoop(s) => Len(s.results) = Len(s.dbNames)
        /\ s.notifyChannel =>
             /\ Len(s.reports) >= FailsUpTo(s, j)
             /\ s.reports[FailsUpTo(s, j)] = s.dbNames[j]

\* The dump of alpha failed, beta was then backed up, and the one report names alpha.
C4_Witness ==
  \E r \in Runs :
    LET s == run[r] IN
    /\ s.dbNames = <<"alpha", "beta">> /\ s.results = <<"Dump", "ok">>
    /\ s.reports = <<"alpha">> /\ s.success = 1 /\ s.failed = 1
    /\ s.returned

\* C5: in a run whose transfer channel is unset no send is ever made on a
\* transfer channel and no target succeeds; a target that reaches Transmit
\* (its dump file was written, packaged and unlinked) fails there with the
\* "destination unset" error and is counted as a failure.
C5_UnsetDestination ==
  /\ [](\A r \in Runs :
          LET s == run[r] IN
          (s.i >= 1 /\ ~s.fileChannel) =>
            /\ s.fileSends = 0 /\ s.success = 0
            /\ s.pc \notin {"stat", "send"}
            /\ \A j \in 1..Len(s.results) : s.results[j] # "ok")
  /\ [][\A r \in Runs :
          (/\ run[r].pc = "unlinkSql" /\ run'[r].pc # "unlinkSql"
           /\ ~run[r].fileChannel /\ run'[r].err # "Unlink")
            => /\ run'[r].err = "DestUnset"
               /\ run'[r].failed = run[r].failed + 1]_vars

\* A target got as far as Transmit with the channel unset and was counted as failed.
C5_Witness ==
  \E r \in Runs :
    LET s == run[r] IN
    /\ ~s.fileChannel /\ s.err = "DestUnset" /\ s.pc = "cleanupSql"
    /\ s.failed = 1 /\ s.fileSends = 0

LoopErrors == {"Dump", "Package", "Unlink", "DestUnset", "Transmit", "Report"}

C7_SummaryBestEffort ==
  \A r \in Runs :
    LET s == run[r] IN
    /\ s.thrown \in {None, "Config"}
    /\ (s.summaries # << >> /\ s.pc # "summary") => s.returned

DumpPcs == {"showTables", "showCreate", "select", "connEnd"}

\* C8 as stated: once dumpDatabase has returned or thrown, the connection it
\* opened is no longer open.
C8_ConnectionReleased ==
  \A r \in Runs : run[r].pc \notin DumpPcs => run[r].conn # "open"

\* C9 as stated: a failed deletion changes no outcome: when the unlink of the
\* dump file after Package settles and the transfer channel is set, the target
\* goes on to Transmit and is not counted as failed.
C9_DeletionNeverSurfaces ==
  [][\A r \in Runs :
       (run[r].pc = "unlinkSql" /\ run'[r].pc # "unlinkSql" /\ run[r].fileChannel)
         => /\ run'[r].pc = "stat"
            /\ run'[r].failed = run[r].failed]_vars

\* C10: an error raised by a run of the cron callback is caught there: nothing
\* escapes the callback, and the error is reported exactly once when the notify
\* channel is resolved in the catch block, not at all otherwise, whether or not
\* that report is delivered.
C10_CronCatchesAndReports ==
  LET s == run["cron"] IN
  /\ s.escaped = None
  /\ s.thrown # None => s.pc \in {"catchFetch", "catchReport", "done"}
  /\ s.trigReports > 0 => s.thrown # None
  /\ (s.thrown # None /\ s.pc # "catchFetch")
       => s.trigReports = (IF s.catchNotify THEN 1 ELSE 0)

\* The scheduled run threw the configuration error, the callback's report was
\* attempted once and rejected, and the callback ended.
C10_Witness ==
  LET s == run["cron"] IN
  /\ s.thrown = "Config" /\ s.pc = "done"
  /\ s.trigReports = 1 /\ s.reportRejected /\ s.escaped = None

\* C11 as stated: an error raised by a run of the backupnow handler is caught
\* by the handler; none escapes it.
C11_ManualCatches ==
  LET s == run["manual"] IN s.thrown # None => s.escaped = None

\* C12: a run is started by the backupnow handler only for the owner and only
\* after the acknowledgement reply was sent; a non-owner gets the refusal and
\* nothing else happens; while the run is in flight no further reply is sent to
\* the trigger message, whatever fails.
C12_AckBeforeRun ==
  /\ [](LET s == run["manual"] IN
        /\ s.reply \in {None, "ack", "denied"}
        /\ (s.pc \notin {"idle", "ack", "done"} \/ s.i >= 1 \/ s.thrown # None)
             => (s.owner /\ s.reply = "ack")
        /\ ~s.owner => (s.reply = "denied" /\ s.pc = "done" /\ s.thrown = None /\ NoWork(s)))
  /\ [][(run["manual"].pc \notin {"idle", "ack", "done"})
          => run'["manual"].reply = run["manual"].reply]_vars

\* A manual run was acknowledged, a target of it failed and was reported on the
\* reporting channel, and the handler has ended with the one reply "ack".
C12_Witness ==
  LET s == run["manual"] IN
  /\ s.reply = "ack" /\ s.pc = "done" /\ s.returned
  /\ s.failed >= 1 /\ Len(s.reports) >= 1

\* The counters and the loop position of a run record.
Counts(s) == <<s.i, s.success, s.failed, s.err>>

\* C13: a run whose reporting channel is null makes no send on a reporting
\* channel (no failure report, no summary), raises no error, processes every
\* target and returns; and the reporting channel has no influence on the
\* counters: the catch block and the end of a step give the same counts with
\* and without a channel.
C13_NoChannelIsSilent ==
  \A r \in Runs :
    LET s == run[r]
        off == [s EXCEPT !.notifyChannel = FALSE]
        on == [s EXCEPT !.notifyChannel = TRUE]
    IN
    /\ (s.i >= 1 /\ ~s.notifyChannel) =>
         /\ s.reports = << >> /\ s.summaries = << >>
         /\ s.pc \notin {"report", "summary"}
         /\ s.thrown = None
         /\ LoopOver(s) => /\ s.returned /\ s.pc = "done"
                           /\ Len(s.results) = Len(s.dbNames)
                           /\ s.success + s.failed = Len(s.dbNames)
    /\ (s.i >= 1 /\ ~LoopOver(s)) =>
         /\ \A e \in LoopErrors : Counts(CatchBlock(off, e)) = Counts(CatchBlock(on, e))
         /\ Counts(NextTarget(r, off)) = Counts(NextTarget(r, on))

\* A run without a reporting channel has processed two targets, one backed up
\* and one failed, and has returned without any report.
C13_Witness ==
  \E r \in Runs :
    LET s == run[r] IN
    /\ ~s.notifyChannel /\ s.returned /\ Len(s.dbNames) = 2
    /\ s.success = 1 /\ s.failed = 1 /\ s.reports = << >> /\ s.summaries = << >>

\* The phase a position of the per-target step belongs to: 1 Dump, 2 Package
\* (with the deletion of the dump file that follows it), 3 Transmit, 4 the
\* catch block's report, 5 Cleanup.
Rank(pc) ==
  CASE pc \in {"connect", "showTables", "showCreate", "select", "connEnd"} -> 1
    [] pc \in {"writeSql", "zip", "zipPending", "unlinkSql"} -> 2
    [] pc \in {"stat", "send"} -> 3
    [] pc = "report" -> 4
    [] pc \in {"cleanupZip", "cleanupSql"} -> 5
    [] OTHER -> 0

\* Run r is inside the per-target loop.
InLoop(s) == s.i >= 1 /\ ~LoopOver(s)

\* C14: within one run the targets are processed one at a time in list order:
\* the loop position only moves from i to i + 1, at the end of the Cleanup of
\* target i, and the Dump of target i + 1 starts there; the files and reports of
\* a step are those of dbNames[i]; within a step the phases follow the order
\* Dump, Package, Transmit, Cleanup, and Package or Transmit is entered only
\* from the successful end of the phase before it.
C14_OrderedPhases ==
  /\ [](\A r \in Runs :
          LET s == run[r] IN
          /\ InLoop(s) => (Rank(s.pc) >= 1 /\ Len(s.results) = s.i - 1)
          /\ s.err # None => s.pc \in {"report", "cleanupZip", "cleanupSql"})
  /\ [][\A r \in Runs :
          LET s == run[r]
              t == run'[r]
          IN
          /\ (s.i >= 1 /\ t.i >= 1 /\ t.i # s.i)
               => /\ t.i = s.i + 1 /\ s.pc = "cleanupSql"
                  /\ InLoop(t) => t.pc = "connect"
          /\ (InLoop(s) /\ t.i = s.i) => Rank(t.pc) >= Rank(s.pc)
          /\ (t.pc = "writeSql" /\ s.pc # "writeSql")
               => (s.pc = "connEnd" /\ t.conn = "closed" /\ t.err = None)
          /\ (t.pc = "zip" /\ s.pc # "zip") => (s.pc = "writeSql" /\ disk'[sqlPath(s)])
          /\ (t.pc = "unlinkSql" /\ s.pc # "unlinkSql") => (s.pc = "zip" /\ disk'[zipPath(s)])
          /\ (t.pc = "stat" /\ s.pc # "stat") => (s.pc = "unlinkSql" /\ t.err = None)
          /\ (t.pc = "send" /\ s.pc # "send") => s.pc = "stat"
          /\ (InLoop(s) /\ t # s)
               => /\ \A p \in Targets \X Kinds : disk'[p] # disk[p] => p[1] = s.dbNames[s.i]
                  /\ t.reports # s.reports => t.reports = Append(s.reports, s.dbNames[s.i])]_vars

\* The run over (alpha, beta) backed up alpha, finished its Cleanup, and has
\* dumped and packaged beta, now at Transmit.
C14_Witness ==
  \E r \in Runs :
    LET s == run[r] IN
    /\ s.dbNames = <<"alpha", "beta">> /\ s.i = 2 /\ s.results = <<"ok">>
    /\ s.pc = "send" /\ disk[<<"beta", "zip">>] /\ ~disk[<<"alpha", "zip">>]

\* Number of processed targets of s whose outcome is in the set `outs`.
Tally(s, outs) == Cardinality({k \in 1..Len(s.results) : s.results[k] \in outs})

\* C15: every target is counted exactly once: the counters change only in the
\* step that ends the try block of a target, by one, one of them; it is the
\* success count exactly when that step is the successful end of Transmit
\* (reached only through a successful Dump and Package), else the failure
\* count; a failure report is attempted in that same step exactly when the
\* failure count moves and a reporting channel is set. Hence the counters
\* equal the numbers of targets ended as success and as failure, and the
\* reports are as many as the failures, or none without a channel.
C15_CountedExactlyOnce ==
  /\ [](\A r \in Runs :
          LET s == run[r]
              now == IF Counted(s) THEN 1 ELSE 0
          IN
          s.i >= 1 =>
            /\ s.success = Tally(s, {"ok"}) + (IF s.err = None THEN now ELSE 0)
            /\ s.failed = Tally(s, {"Dump", "other"}) + (IF s.err # None THEN now ELSE 0)
            /\ Len(s.reports) = (IF s.notifyChannel THEN s.failed ELSE 0)
            /\ s.fileSends >= s.success)
  /\ [][\A r \in Runs :
          LET s == run[r]
              t == run'[r]
              ends == ~Counted(s) /\ Counted(t)
              sent == s.pc = "send" /\ t.err = None
          IN
          (InLoop(s) /\ t.i >= 1) =>
            /\ ends => /\ t.i = s.i
                       /\ IF sent
                          THEN t.success = s.success + 1 /\ t.failed = s.failed
                          ELSE t.failed = s.failed + 1 /\ t.success = s.success
                       /\ t.reports # s.reports <=> (~sent /\ s.notifyChannel)
            /\ ~ends => /\ t.success = s.success /\ t.failed = s.failed
                        /\ t.reports = s.reports]_vars

\* A run with a reporting channel is over: its first target failed in Dump, its
\* second was transmitted, and one report, about the first, was attempted.
C15_Witness ==
  \E r \in Runs :
    LET s == run[r] IN
    /\ s.notifyChannel /\ LoopOver(s) /\ s.results = <<"Dump", "ok">>
    /\ s.success = 1 /\ s.failed = 1 /\ s.reports = <<s.dbNames[1]>>

\* C16 as stated, for overlapping runs: while a step is between the creation
\* of one of its files and its Cleanup, that file is still there for the step's
\* next phase: the dump file when the step is at Package, the artifact when it
\* is at the deletion of the dump file or at Transmit.
C16_FilesOwnedByStep ==
  \A r \in Runs :
    LET s == run[r] IN
    /\ s.pc = "zip" => disk[sqlPath(s)]
    /\ s.pc \in {"unlinkSql", "stat"} => disk[zipPath(s)]

\* C17: a run (a call of backupAllDatabases) takes the stored list once, when
\* it starts, and keeps that list: no step changes the list of a run that has
\* started, a setdb changes the stored list and no run, the loop ends after
\* exactly the loaded targets, and the total of the summary is the length of
\* the loaded list, whatever the stored list has become.
C17_ListFixedForRun ==
  /\ [](\A r \in Runs :
          LET s == run[r] IN
          /\ s.i = 0 => s.dbNames = << >>
          /\ s.i >= 1 =>
               /\ s.i <= Len(s.dbNames) + 1
               /\ (s.pc \in {"summary", "done"} /\ s.thrown # "Config") => LoopOver(s)
               /\ \A k \in 1..Len(s.summaries) : s.summaries[k].total = Len(s.dbNames))
  /\ [][/\ dbFile' # dbFile => run' = run
        /\ \A r \in Runs :
             LET s == run[r]
                 t == run'[r]
             IN
             /\ (s.i = 0 /\ t.i >= 1) => (t.dbNames = dbFile /\ dbFile' = dbFile)
             /\ (s.i >= 1 /\ t.i >= 1) => t.dbNames = s.dbNames]_vars

\* A run that loaded (alpha, beta) is at the Cleanup of beta while the stored
\* list has been replaced by (alpha).
C17_Witness ==
  \E r \in Runs :
    LET s == run[r] IN
    /\ s.dbNames = <<"alpha", "beta">> /\ dbFile = <<"alpha">>
    /\ s.i = 2 /\ s.pc = "cleanupSql"

\* A step of run r: one of its awaits settles.
Step(r) ==
  \/ r = "manual" /\ Ack
  \/ r = "cron" /\ (CatchFetch \/ CatchReport)
  \/ FetchNotify(r) \/ FetchFile(r)
  \/ Connect(r) \/ ShowTables(r) \/ ShowCreate(r) \/ Select(r) \/ ConnEnd(r)
  \/ WriteSql(r) \/ ZipFile(r) \/ UnlinkSql(r) \/ Stat(r) \/ Send(r)
  \/ Report(r) \/ CleanupZip(r) \/ CleanupSql(r) \/ Summary(r)

\* C18 as stated, in its finite form: a run that has not ended is never stuck;
\* whatever the external calls answered so far, it is at an await whose
\* settling (with a result or an error) lets it go on towards Finalize.
C18_RunNeverStuck ==
  \A r \in Runs : ~Idle(r) => ENABLED Step(r)

\* Number of files of the given kind on disk.
FilesOf(kind) == Cardinality({t \in Targets : disk[<<t, kind>>]})

\* C19 as stated: at any time of a run, the connections it opened and has not
\* closed are at most one, and at most one dump file and at most one artifact
\* file are on disk.
C19_OneOfEach ==
  \A r \in Runs :
    LET s == run[r] IN
    s.i >= 1 =>
      /\ s.openConns <= 1
      /\ FilesOf("sql") <= 1
      /\ FilesOf("zip") <= 1

\* C20: a run hands at most one summary to the reporting channel; it does so in
\* the step that ends the Cleanup of the last target, and only with a channel;
\* from then on one summary has been attempted, and it carries the length of
\* the list, the final counters, and the warning indicator exactly when the
\* failure count is positive. A run that failed the configuration check, or
\* that is still in its loop, has sent none.
C20_SummaryOnceAfterLoop ==
  /\ [](\A r \in Runs :
          LET s == run[r] IN
          /\ Len(s.summaries) <= 1
          /\ (s.i = 0 \/ InLoop(s) \/ ~s.notifyChannel \/ s.thrown = "Config")
               => s.summaries = << >>
          /\ (s.i >= 1 /\ LoopOver(s) /\ s.notifyChannel)
               => /\ Len(s.results) = Len(s.dbNames)
                  /\ s.summaries = << [ total |-> Len(s.dbNames),
                                        success |-> s.success,
                                        failed |-> s.failed,
                                        warn |-> s.failed > 0 ] >>
                  /\ s.success = Tally(s, {"ok"})
                  /\ s.failed = Tally(s, {"Dump", "other"}))
  /\ [][\A r \in Runs :
          LET s == run[r]
              t == run'[r]
          IN
          (t.summaries # s.summaries /\ t.summaries # << >>)
            => (StepEnds(r) /\ s.i = Len(s.dbNames) /\ t.pc = "summary")]_vars

\* The summary of a run over two targets, one backed up and one failed, has
\* been handed to the channel with the warning indicator.
C20_Witness ==
  \E r \in Runs :
    run[r].summaries = << [ total |-> 2, success |-> 1, failed |-> 1, warn |-> TRUE ] >>

====
